---- MODULE Spec2Model ----
(***************************************************************************)
(* RFID-Box-3D: the two configuration headers                              *)
(*     src/config_3D.h                   ("root")                          *)
(*     src/sw/RFID_3D_ESP32/config_3D.h  ("esp32")                         *)
(* and what the C preprocessor makes of them in one translation unit.      *)
(*                                                                         *)
(* The repository's source is these two headers and nothing else: each is  *)
(* an #ifndef/#define include guard around a flat list of object-like      *)
(* #define directives.  The state machine below is the preprocessor        *)
(* reading, line by line, a translation unit that includes the headers in  *)
(* some order; its state is the macro table, the conditional-group stack   *)
(* and the read position.                                                  *)
(***************************************************************************)
EXTENDS Naturals, Sequences, FiniteSets

\* Longest #include list of a translation unit that is explored.
MaxIncludes == 3

\* The two header files of the repository.
Files == {"root", "esp32"}

----------------------------------------------------------------------------
\* Replacement lists of the object-like macros (comments are removed in
\* translation phase 3, before directives are read, so the trailing
\* "//..." on the MACHINE_NAME / MACHINE_ID lines is not part of them).

\* a string-literal token: #define X "text"
Str(t) == [kind |-> "string", text |-> t]

\* an identifier token: #define X false
Ident(t) == [kind |-> "ident", text |-> t]

\* an empty replacement list: #define X
Empty == [kind |-> "empty", text |-> ""]

\* One source line, as the preprocessor classifies it.
IfndefLine(n) == [op |-> "ifndef", name |-> n, body |-> Empty]
DefineLine(n, b) == [op |-> "define", name |-> n, body |-> b]
EndifLine == [op |-> "endif", name |-> "", body |-> Empty]
TextLine == [op |-> "text", name |-> "", body |-> Empty]

\* Faulty variant of line 1: the esp32 header tests a guard of its own name.
GuardTestedPerFile(h) == IF h = "esp32" THEN "CONFIG_3D_ESP32_H" ELSE "CONFIG_3D_H"

\* Line 1 of either header: the macro its #ifndef tests.
GuardTested(h) == "CONFIG_3D_H"

\* Faulty variant of line 2: the guard name is misspelt, so it is never set.
GuardDefinedTypo(h) == "CONFIG3D_H"

\* Line 2 of either header: the macro its guard #define sets.
GuardDefined(h) == "CONFIG_3D_H"

\* src/config_3D.h, lines 1..13 (line 13 is an empty line).
RootHeader ==
  << IfndefLine(GuardTested("root")),
     DefineLine(GuardDefined("root"), Empty),
     TextLine,
     DefineLine("WIFI_SSID", Str("ssid")),
     DefineLine("WIFI_PASSWORD", Str("password")),
     DefineLine("SERVER_IP", Str("0.0.0.0")),
     DefineLine("AUTHENTICATION_TOKEN", Str("token")),
     TextLine,
     DefineLine("MACHINE_NAME", Str("name")),
     DefineLine("MACHINE_ID", Str("id")),
     TextLine,
     EndifLine,
     TextLine >>

\* src/sw/RFID_3D_ESP32/config_3D.h, lines 1..13.
Esp32Header ==
  << IfndefLine(GuardTested("esp32")),
     DefineLine(GuardDefined("esp32"), Empty),
     TextLine,
     DefineLine("WIFI_SSID", Str("SSID")),
     DefineLine("WIFI_PASSWORD", Str("password")),
     DefineLine("SERVER_IP", Str("192.168.178.99")),
     DefineLine("AUTHENTICATION_TOKEN", Str("token")),
     DefineLine("RFIDCARD_AUTH_CONST", Ident("false")),
     TextLine,
     DefineLine("MACHINE_NAME", Str("name")),
     DefineLine("MACHINE_ID", Str("id")),
     TextLine,
     EndifLine >>

Header(h) == IF h = "root" THEN RootHeader ELSE Esp32Header

\* The six macros both headers define.
ConfigMacros ==
  {"WIFI_SSID", "WIFI_PASSWORD", "SERVER_IP", "AUTHENTICATION_TOKEN",
   "MACHINE_NAME", "MACHINE_ID"}

\* The lines of header h that are #define directives.
DefineLines(h) == {i \in DOMAIN Header(h) : Header(h)[i].op = "define"}

\* The profile a header carries: each macro name it defines, with its
\* replacement list as written in the file.
ProfileOf(h) ==
  [n \in {Header(h)[i].name : i \in DefineLines(h)} |->
     Header(h)[CHOOSE i \in DefineLines(h) : Header(h)[i].name = n].body]

----------------------------------------------------------------------------
VARIABLES
  includes,  \* the translation unit: the headers it includes, in order
  idx,       \* which #include is being read
  line,      \* the next line of that header
  ifstack,   \* one entry per open conditional group: is the group taken
  macros,    \* the macro table: defined name -> replacement list
  defLog     \* history: every #define that took effect, in order

vars == <<includes, idx, line, ifstack, macros, defLog>>

\* Nonempty #include lists of at most MaxIncludes headers.
IncludeLists ==
  UNION {[1..n -> Files] : n \in 1..MaxIncludes}

EmptyTable == [n \in {} |-> Empty]

\* The table with name n bound to replacement list b (a redefinition takes
\* the new replacement list).
Bind(t, n, b) == [k \in DOMAIN t \cup {n} |-> IF k = n THEN b ELSE t[k]]

Init ==
  /\ includes \in IncludeLists
  /\ idx = 1
  /\ line = 1
  /\ ifstack = <<>>
  /\ macros = EmptyTable
  /\ defLog = <<>>

\* The whole translation unit has been read.
Done == idx > Len(includes)

\* A line of the current header is waiting to be read.
AtLine == ~Done /\ line <= Len(Header(includes[idx]))

Cur == Header(includes[idx])[line]

\* Lines are processed only when every enclosing group is taken.
Active == \A i \in DOMAIN ifstack : ifstack[i]

\* #ifndef NAME: opens a group, taken iff NAME is not defined.
Ifndef ==
  /\ AtLine
  /\ Cur.op = "ifndef"
  /\ ifstack' = Append(ifstack, Cur.name \notin DOMAIN macros)
  /\ line' = line + 1
  /\ UNCHANGED <<includes, idx, macros, defLog>>

\* #define NAME body: takes effect in a taken group, is skipped otherwise.
Define ==
  /\ AtLine
  /\ Cur.op = "define"
  /\ IF Active
       THEN /\ macros' = Bind(macros, Cur.name, Cur.body)
            /\ defLog' = Append(defLog,
                                [name |-> Cur.name, file |-> includes[idx],
                                 pos |-> idx, body |-> Cur.body])
       ELSE UNCHANGED <<macros, defLog>>
  /\ line' = line + 1
  /\ UNCHANGED <<includes, idx, ifstack>>

\* #endif: closes the innermost group.
Endif ==
  /\ AtLine
  /\ Cur.op = "endif"
  /\ Len(ifstack) > 0
  /\ ifstack' = SubSeq(ifstack, 1, Len(ifstack) - 1)
  /\ line' = line + 1
  /\ UNCHANGED <<includes, idx, macros, defLog>>

\* An empty line: nothing to do.
Text ==
  /\ AtLine
  /\ Cur.op = "text"
  /\ line' = line + 1
  /\ UNCHANGED <<includes, idx, ifstack, macros, defLog>>

\* End of the current header: go on with the next #include.
EndOfFile ==
  /\ ~Done
  /\ line > Len(Header(includes[idx]))
  /\ idx' = idx + 1
  /\ line' = 1
  /\ UNCHANGED <<includes, ifstack, macros, defLog>>

Next == Ifndef \/ Define \/ Endif \/ Text \/ EndOfFile

Spec == Init /\ [][Next]_vars

----------------------------------------------------------------------------
\* How many #define directives for name m have taken effect.
DefCount(m) == Cardinality({i \in DOMAIN defLog : defLog[i].name = m})

----------------------------------------------------------------------------
\* C10: both headers use the include guard CONFIG_3D_H, so in a translation
\* unit that includes them in any order only the first-included header's
\* definitions take effect: no macro is defined more than once, every
\* #define that took effect belongs to the first #include, each of the six
\* configuration macros that is defined carries the first header's value,
\* and at the end of the unit all six are defined.
C10_FirstIncludeWins ==
  /\ \A m \in DOMAIN macros : DefCount(m) <= 1
  /\ \A i \in DOMAIN defLog : defLog[i].pos = 1
  /\ \A m \in ConfigMacros \cap DOMAIN macros :
       macros[m] = ProfileOf(includes[1])[m]
  /\ Done => ConfigMacros \subseteq DOMAIN macros

\* C10 witness: a unit that includes both headers (first the one, then the
\* other) has been read to its end, with the guard and all six macros set.
C10_BothIncludedDone ==
  /\ Done
  /\ Len(includes) >= 2
  /\ includes[1] # includes[2]
  /\ GuardDefined(includes[1]) \in DOMAIN macros
  /\ ConfigMacros \subseteq DOMAIN macros

====
